---- MODULE Spec2Model ----
(***************************************************************************)
(* Model of the web3.storage example image gallery: the upload path        *)
(* (uploadClicked / storeImage / put), the gallery listing pass            *)
(* (listImageMetadata / getGalleryListing / getImageMetadata), the token   *)
(* settings handlers and the helper functions they use.                    *)
(*                                                                         *)
(* The source tree holds several tutorial variants of main.js.  The model  *)
(* carries the variant as a constant-after-Init variable:                  *)
(*   "carousel"  src/unnamed/part_004 lines 170-796 (the version the       *)
(*               README describes)                                         *)
(*   "generator" src/unnamed/part_003 lines 1-513                          *)
(*   "token"     src/unnamed/part_000 lines 1-451                          *)
(*   "listing"   src/main.js (its upload path; the list.json pass that     *)
(*               its setup() starts is not part of this model yet)         *)
(*                                                                         *)
(* JavaScript strings are sequences of one-character strings, so that      *)
(* join, startsWith, encodeURIComponent, JSON.stringify and JSON.parse     *)
(* are computed and not assumed.                                           *)
(***************************************************************************)
EXTENDS Integers, Sequences, FiniteSets, TLC

\* ------------------------------------------------------------------ bounds

\* clicks on the upload button per page load
MaxClicks == 2
\* uploads the backend may hold (pre-existing ones plus the stored ones)
MaxBackend == 2
\* longest file name / caption drawn in the pure-function specification
MaxLen == 2

\* ------------------------------------------------------------------ strings

\* JavaScript null / undefined (a value no string of the model equals)
Null == <<"null">>

Variants == {"carousel", "generator", "token", "listing"}

\* [a, b].join(sep) for two strings
Join2(a, sep, b) == a \o sep \o b

\* String.prototype.startsWith
StartsWith(s, p) == Len(s) >= Len(p) /\ SubSeq(s, 1, Len(p)) = p

\* the strings over alphabet A of length lo..hi
StringsOver(A, lo, hi) == UNION {[1..n -> A] : n \in lo..hi}

namePrefix == <<"I", "m", "a", "g", "e", "G", "a", "l", "l", "e", "r", "y">>

metadataJson == <<"m", "e", "t", "a", "d", "a", "t", "a", ".", "j", "s", "o", "n">>

\* characters encodeURIComponent leaves alone:  A-Z a-z 0-9 - _ . ! ~ * ' ( )
UnreservedChars ==
  {"a", "b", "c", "d", "e", "f", "g", "h", "i", "j", "k", "l", "m", "n", "o",
   "p", "q", "r", "s", "t", "u", "v", "w", "x", "y", "z", "G", "I",
   "0", "1", "2", "3", "4", "5", "6", "7", "8", "9",
   "-", "_", ".", "!", "~", "*", "'", "(", ")"}

\* the percent code of the other characters of the model's alphabet
PercentCode(c) ==
  CASE c = " "  -> <<"%", "2", "0">>
    [] c = "\"" -> <<"%", "2", "2">>
    [] c = "#"  -> <<"%", "2", "3">>
    [] c = "%"  -> <<"%", "2", "5">>
    [] c = "/"  -> <<"%", "2", "F">>
    [] c = ":"  -> <<"%", "3", "A">>
    [] c = "?"  -> <<"%", "3", "F">>
    [] c = "\\" -> <<"%", "5", "C">>
    [] c = "{"  -> <<"%", "7", "B">>
    [] c = "|"  -> <<"%", "7", "C">>
    [] c = "}"  -> <<"%", "7", "D">>
    [] c = ","  -> <<"%", "2", "C">>

RECURSIVE encodeURIComponent(_)
encodeURIComponent(s) ==
  IF s = <<>> THEN <<>>
  ELSE (IF Head(s) \in UnreservedChars THEN <<Head(s)>> ELSE PercentCode(Head(s)))
       \o encodeURIComponent(Tail(s))

\* template literal `${x}` of a value that may be undefined
TemplateStr(x) ==
  IF x = Null THEN <<"u", "n", "d", "e", "f", "i", "n", "e", "d">> ELSE x

HttpsScheme == <<"h", "t", "t", "p", "s", ":", "/", "/">>

GatewayHost == <<".", "i", "p", "f", "s", ".", "d", "w", "e", "b", ".", "l", "i", "n", "k", "/">>

IpfsScheme == <<"i", "p", "f", "s", ":", "/", "/">>

\* part_004: `https://${cid}.ipfs.dweb.link/${encodeURIComponent(path)}`
makeGatewayURL(cid, path) ==
  HttpsScheme \o cid \o GatewayHost \o encodeURIComponent(TemplateStr(path))

\* part_000, part_003: `https://${cid}.ipfs.dweb.link/${path}`
makeGatewayURLPlain(cid, path) ==
  HttpsScheme \o cid \o GatewayHost \o TemplateStr(path)

\* main.js: `https://${cid}.ipfs.dweb.link/${imageFile.name}`
gatewayURLTemplate(cid, name) ==
  HttpsScheme \o cid \o GatewayHost \o name

\* the makeGatewayURL of a variant
GatewayURLOf(v, cid, path) ==
  IF v = "carousel" THEN makeGatewayURL(cid, path)
  ELSE IF v = "listing" THEN gatewayURLTemplate(cid, path)
  ELSE makeGatewayURLPlain(cid, path)

\* `ipfs://${cid}/${path}`
ipfsURI(cid, path) == IpfsScheme \o cid \o <<"/">> \o TemplateStr(path)

\* ------------------------------------------------------------------ JSON

\* property keys of the sidecar and of the listing item
kPath == <<"p", "a", "t", "h">>

kCaption == <<"c", "a", "p", "t", "i", "o", "n">>

kCid == <<"c", "i", "d">>

kGatewayURL == <<"g", "a", "t", "e", "w", "a", "y", "U", "R", "L">>

kUri == <<"u", "r", "i">>

\* a JavaScript object: a function from property keys to values
EmptyObj == [k \in {} |-> <<>>]

\* obj.key, undefined when the property is absent
Get(obj, k) == IF k \in DOMAIN obj THEN obj[k] ELSE Null

\* { ...obj, key: value }
With(obj, k, val) == (k :> val) @@ obj

\* a stringify that escapes nothing
QuoteCharsRaw(s) == s

\* JSON.stringify of a string's characters: quote and backslash are escaped
\* (the alphabet of the model holds no control characters)
RECURSIVE QuoteChars(_)
QuoteChars(s) ==
  IF s = <<>> THEN <<>>
  ELSE (IF Head(s) \in {"\"", "\\"} THEN <<"\\", Head(s)>> ELSE <<Head(s)>>)
       \o QuoteChars(Tail(s))

JSONString(s) == <<"\"">> \o QuoteChars(s) \o <<"\"">>

\* JSON.stringify({path, caption}): the members in insertion order
JSONStringify(path, caption) ==
  <<"{">> \o JSONString(kPath) \o <<":">> \o JSONString(path) \o <<",">>
          \o JSONString(kCaption) \o <<":">> \o JSONString(caption) \o <<"}">>

ParseFail == [ok |-> FALSE, val |-> <<>>, pos |-> 0]

\* the string whose opening quote is at t[i-1]; pos is the index after the
\* closing quote
RECURSIVE ParseString(_, _, _)
ParseString(t, i, acc) ==
  IF i > Len(t) THEN ParseFail
  ELSE IF t[i] = "\"" THEN [ok |-> TRUE, val |-> acc, pos |-> i + 1]
  ELSE IF t[i] = "\\"
    THEN IF i + 1 <= Len(t) /\ t[i + 1] \in {"\"", "\\", "/"}
           THEN ParseString(t, i + 2, Append(acc, t[i + 1]))
           ELSE ParseFail
  ELSE ParseString(t, i + 1, Append(acc, t[i]))

\* the members "key":"value" of an object from t[i] on, up to the closing
\* brace; a repeated key keeps the last value
RECURSIVE ParseMembers(_, _, _)
ParseMembers(t, i, obj) ==
  IF i > Len(t) \/ t[i] # "\"" THEN ParseFail
  ELSE LET k == ParseString(t, i + 1, <<>>) IN
    IF ~k.ok \/ k.pos + 1 > Len(t) \/ t[k.pos] # ":" \/ t[k.pos + 1] # "\""
      THEN ParseFail
    ELSE LET v == ParseString(t, k.pos + 2, <<>>) IN
      IF ~v.ok \/ v.pos > Len(t) THEN ParseFail
      ELSE IF t[v.pos] = "," THEN ParseMembers(t, v.pos + 1, With(obj, k.val, v.val))
      ELSE IF t[v.pos] = "}"
        THEN [ok |-> TRUE, val |-> With(obj, k.val, v.val), pos |-> v.pos + 1]
      ELSE ParseFail

\* JSON.parse for the texts of the model: an object with string members, or
\* the literal null; anything else (and any trailing text) is a SyntaxError.
\* kind is "object", "null" or "error".
JSONParse(t) ==
  IF t = <<"n", "u", "l", "l">> THEN [kind |-> "null", val |-> EmptyObj]
  ELSE IF Len(t) < 2 \/ t[1] # "{" THEN [kind |-> "error", val |-> EmptyObj]
  ELSE IF t = <<"{", "}">> THEN [kind |-> "object", val |-> EmptyObj]
  ELSE LET r == ParseMembers(t, 2, EmptyObj) IN
    IF r.ok /\ r.pos = Len(t) + 1 THEN [kind |-> "object", val |-> r.val]
    ELSE [kind |-> "error", val |-> EmptyObj]

\* JSON.stringify of one entry of the image list: {cid, path, caption}
JSONStringifyItem(item) ==
  <<"{">> \o JSONString(kCid) \o <<":">> \o JSONString(item.cid) \o <<",">>
          \o JSONString(kPath) \o <<":">> \o JSONString(item.path) \o <<",">>
          \o JSONString(kCaption) \o <<":">> \o JSONString(item.caption) \o <<"}">>

\* the elements of an array, joined with commas
RECURSIVE JSONStringifyElements(_)
JSONStringifyElements(list) ==
  IF list = <<>> THEN <<>>
  ELSE JSONStringifyItem(Head(list))
       \o (IF Len(list) > 1 THEN <<",">> ELSE <<>>)
       \o JSONStringifyElements(Tail(list))

\* JSON.stringify(list) of storeImageList
JSONStringifyList(list) == <<"[">> \o JSONStringifyElements(list) \o <<"]">>

\* the objects of an array from t[i] on, up to the closing bracket
RECURSIVE ParseElements(_, _, _)
ParseElements(t, i, acc) ==
  IF i > Len(t) \/ t[i] # "{" THEN ParseFail
  ELSE LET r == ParseMembers(t, i + 1, EmptyObj) IN
    IF ~r.ok \/ r.pos > Len(t) THEN ParseFail
    ELSE IF t[r.pos] = "," THEN ParseElements(t, r.pos + 1, Append(acc, r.val))
    ELSE IF t[r.pos] = "]"
      THEN [ok |-> TRUE, val |-> Append(acc, r.val), pos |-> r.pos + 1]
    ELSE ParseFail

\* JSON.parse for the text of an image list: an array of objects with string
\* members; kind is "array" or "error"
JSONParseList(t) ==
  IF t = <<"[", "]">> THEN [kind |-> "array", val |-> <<>>]
  ELSE IF Len(t) < 2 \/ t[1] # "[" THEN [kind |-> "error", val |-> <<>>]
  ELSE LET r == ParseElements(t, 2, <<>>) IN
    IF r.ok /\ r.pos = Len(t) + 1 THEN [kind |-> "array", val |-> r.val]
    ELSE [kind |-> "error", val |-> <<>>]

\* ------------------------------------------------------------------ files

\* new File([JSON.stringify(obj)], filename)
jsonFile(filename, path, caption) ==
  [name |-> filename, type |-> "", content |-> JSONStringify(path, caption)]

\* the bytes of an image (opaque)
ImageBytes == <<"(image)">>

NoFile == [name |-> Null, type |-> "", content |-> <<>>]

\* the files the user can pick or drop
UserFiles ==
  {[name |-> <<"a", " ", "b", ".", "p", "n", "g">>, type |-> "image/png",
    content |-> ImageBytes]}

\* the captions the user can type (captionInput.value || '')
Captions == {<<>>, <<"h", "i">>}

\* the API tokens the user can paste
Tokens == {<<"t", "o", "k">>}

\* main.js: the name of the upload that holds the image list
listingUploadName == <<"w", "3", "s", "-", "e", "x", "a", "m", "p", "l", "e", "-", "g", "a", "l", "l", "e", "r", "y", "-", "l", "i", "s", "t", ".", "j", "s", "o", "n">>

\* main.js storeImageList: new File([content], 'list.json')
listJsonName == <<"l", "i", "s", "t", ".", "j", "s", "o", "n">>

\* main.js setup: the list its test code stores, one entry {cid, path,
\* caption} (the three strings cut short: 'bafybeiam6g...', 'decentralized-
\* space-invaders.gif', 'pew! pew!!')
testList ==
  <<[cid |-> <<"b", "a", "f", "y", "b", "e", "i">>, path |-> <<"d", ".", "g", "i", "f">>, caption |-> <<"p", "e", "w", "!">>]>>

\* main.js storeImageList: the file of its put call
listFile(list) ==
  [name |-> listJsonName, type |-> "", content |-> JSONStringifyList(list)]

\* ------------------------------------------------------------------ storeImage

\* an upload name joined without the separator
uploadNameNoSeparator(caption) == namePrefix \o caption

\* an upload name with the caption first
uploadNameCaptionFirst(caption) == Join2(caption, <<"|">>, namePrefix)

\* storeImage: const uploadName = [namePrefix, caption].join('|')
uploadName(caption) == Join2(namePrefix, <<"|">>, caption)

\* the name option of the put call of a variant
PutName(v, caption) == IF v = "listing" THEN caption ELSE uploadName(caption)

\* a put call without the sidecar
PutFilesImageOnly(v, imageFile, caption) == <<imageFile>>

\* a put call whose sidecar names the caption as the path
PutFilesPathIsCaption(v, imageFile, caption) ==
  <<imageFile, jsonFile(metadataJson, caption, caption)>>

\* the files of the put call of a variant
PutFiles(v, imageFile, caption) ==
  IF v = "listing" THEN <<imageFile>>
  ELSE <<imageFile, jsonFile(metadataJson, imageFile.name, caption)>>

NoResult == [cid |-> Null]

\* storeImage with the image links built from the sidecar's path
storeImageResultSwapped(v, imageFile, cid) ==
  [cid |-> cid,
   metadataGatewayURL |-> GatewayURLOf(v, cid, metadataJson),
   imageGatewayURL |-> GatewayURLOf(v, cid, metadataJson),
   imageURI |-> ipfsURI(cid, metadataJson),
   metadataURI |-> ipfsURI(cid, metadataJson)]

\* what storeImage returns once put has resolved with cid
storeImageResult(v, imageFile, cid) ==
  IF v = "listing"
    THEN [cid |-> cid,
          uri |-> ipfsURI(cid, imageFile.name),
          gatewayURL |-> gatewayURLTemplate(cid, imageFile.name)]
    ELSE [cid |-> cid,
          metadataGatewayURL |-> GatewayURLOf(v, cid, metadataJson),
          imageGatewayURL |-> GatewayURLOf(v, cid, imageFile.name),
          imageURI |-> ipfsURI(cid, imageFile.name),
          metadataURI |-> ipfsURI(cid, metadataJson)]

\* ------------------------------------------------------------------ listing

\* a filter that only checks that the upload has a name
NameMatchesAnyName(name) == name # Null /\ name # <<>>

\* the filter of the listing loop:
\*   if (!upload.name || !upload.name.startsWith(namePrefix)) continue
NameMatches(name) == name # Null /\ name # <<>> /\ StartsWith(name, namePrefix)

\* what an HTTP response can be: ok with a body, or a non-success status
NotOk == [ok |-> FALSE, body |-> <<>>]

\* a getImageMetadata in which the members of the sidecar override the ones
\* computed from the CID: { cid, gatewayURL, uri, ...metadata }
getImageMetadataSidecarWins(v, cid, res) ==
  LET parsed == JSONParse(res.body)
      metadata == parsed.val
      gatewayURL == GatewayURLOf(v, cid, Get(metadata, kPath))
      uri == ipfsURI(cid, Get(metadata, kPath))
  IN IF ~res.ok \/ parsed.kind # "object"
       THEN [thrown |-> TRUE, item |-> EmptyObj]
       ELSE [thrown |-> FALSE,
             item |-> metadata @@ With(With(With(EmptyObj, kCid, cid), kGatewayURL, gatewayURL),
                                       kUri, uri)]

\* a getImageMetadata that puts the path into the gateway URL as it is
getImageMetadataPlainURL(v, cid, res) ==
  LET parsed == JSONParse(res.body)
      metadata == parsed.val
      gatewayURL == makeGatewayURLPlain(cid, Get(metadata, kPath))
      uri == ipfsURI(cid, Get(metadata, kPath))
  IN IF ~res.ok \/ parsed.kind # "object"
       THEN [thrown |-> TRUE, item |-> EmptyObj]
       ELSE [thrown |-> FALSE,
             item |-> With(With(With(metadata, kCid, cid), kGatewayURL, gatewayURL),
                           kUri, uri)]

\* getImageMetadata after the fetch has resolved with response res:
\* thrown is TRUE when it throws (non-OK status, SyntaxError of res.json(),
\* TypeError of metadata.path on null), else item is the object returned
getImageMetadata(v, cid, res) ==
  LET parsed == JSONParse(res.body)
      metadata == parsed.val
      gatewayURL == GatewayURLOf(v, cid, Get(metadata, kPath))
      uri == ipfsURI(cid, Get(metadata, kPath))
  IN IF ~res.ok \/ parsed.kind # "object"
       THEN [thrown |-> TRUE, item |-> EmptyObj]
       ELSE [thrown |-> FALSE,
             item |-> With(With(With(metadata, kCid, cid), kGatewayURL, gatewayURL),
                           kUri, uri)]

\* the loop body of getGalleryListing in part_003:1071-1099 for an upload
\* that passed the filter: getImageMetadata returns res.json() as it is, and
\* the image pushed is {...metadata, gatewayURL} with the gateway URL built
\* from upload.cid; an error (non-OK status, SyntaxError, TypeError of
\* metadata.path on null) is caught and the upload skipped
getGalleryListingImage(cid, res) ==
  LET parsed == JSONParse(res.body)
      metadata == parsed.val
      gatewayURL == makeGatewayURLPlain(cid, Get(metadata, kPath))
  IN IF ~res.ok \/ parsed.kind # "object"
       THEN [thrown |-> TRUE, item |-> EmptyObj]
       ELSE [thrown |-> FALSE, item |-> With(metadata, kGatewayURL, gatewayURL)]

\* JSON text of an object with string members, given as <<key, value>> pairs
RECURSIVE MembersText(_)
MembersText(ps) ==
  IF ps = <<>> THEN <<>>
  ELSE JSONString(Head(ps)[1]) \o <<":">> \o JSONString(Head(ps)[2])
       \o (IF Len(ps) > 1 THEN <<",">> ELSE <<>>)
       \o MembersText(Tail(ps))

ObjectText(ps) == <<"{">> \o MembersText(ps) \o <<"}">>

\* what the gateway may answer for metadata.json of an upload that another
\* program made under a gallery name: a sidecar with its own cid, gatewayURL
\* and uri; one with a member the gallery does not write; one without a
\* path; the literal null
SidecarBodies ==
  {ObjectText(<< <<kPath, <<"p">>>>, <<kCaption, <<"c">>>>, <<kCid, <<"x">>>>,
                 <<kGatewayURL, <<"g">>>>, <<kUri, <<"u">>>> >>),
   ObjectText(<< <<kPath, <<"p">>>>, <<kCaption, <<"c">>>>, <<<<"e">>, <<"v">>>> >>),
   ObjectText(<< <<kCid, <<"x">>>> >>),
   <<"n", "u", "l", "l">>}

\* ------------------------------------------------------------------ state

VARIABLES
  variant,      \* which main.js is deployed
  listingCID,   \* localStorage 'w3s-example-listing-cid' of main.js (Null when absent)
  token,        \* localStorage 'w3storage-token' (Null when absent)
  backend,      \* what web3storage.list() enumerates: <<[cid, name, files]>>
  page,         \* window.location.pathname
  navPending,   \* a pathname assigned by navToPath, not loaded yet (or NoNav)
  selectedFile, \* the selected file (selectedFile / fileInput.files[0])
  view,         \* which upload views are visible, and the success links
  tokenView,    \* which token sections are visible
  output,       \* what showMessage / showLink appended to the output area
  clicks,       \* one record per click on the upload button since page load
  putCalls,     \* the put calls made since page load
  listing,      \* the gallery listing pass of this page load
  pure          \* inputs and results of the pure-function specification

vars == <<variant, listingCID, token, backend, page, navPending, selectedFile, view,
          tokenView, output, clicks, putCalls, listing, pure>>

appVars == <<variant, listingCID, token, backend, page, navPending, selectedFile, view,
             tokenView, output, clicks, putCalls, listing>>

Pages == {"/", "/gallery.html", "/settings.html"}

SettingsPath == "/settings.html"

\* no navigation is pending
NoNav == ""

\* document.getElementById(id) finds an element on the page
HasUploadUI(p) == p = "/"

HasGalleryUI(p) == p = "/gallery.html"

HasTokenUI(v, p) == p = SettingsPath /\ v # "listing"

\* the variants that read the token from local storage
UsesSavedToken(v) == v # "listing"

\* getSavedToken(): localStorage.getItem('w3storage-token')
getSavedToken == token

\* the upload views hide the inputs while an upload is shown
HidesInputs(v) == v \in {"carousel", "generator"}

\* the CID the backend gives to its n-th upload
CidChars == <<"1", "2", "3", "4", "5", "6", "7", "8", "9">>

CidOf(n) == <<"b", "a", "f", "y", CidChars[n]>>

\* ------------------------------------------------------------------ backend

\* uploads made with the same credential before the first page load
ForeignCatalogue ==
  << \* an upload without a name
     [name |-> Null,
      files |-> <<[name |-> <<"x">>, type |-> "", content |-> ImageBytes]>>],
     \* a gallery upload whose sidecar is cut short
     [name |-> uploadName(<<"h", "i">>),
      files |-> <<[name |-> <<"c">>, type |-> "image/png", content |-> ImageBytes],
                  [name |-> metadataJson, type |-> "",
                   content |-> SubSeq(JSONStringify(<<"c">>, <<"h", "i">>), 1, 9)]>>],
     \* an upload of another application, with a valid sidecar
     [name |-> <<"o", "t", "h", "e", "r">>,
      files |-> <<[name |-> <<"c">>, type |-> "image/png", content |-> ImageBytes],
                  jsonFile(metadataJson, <<"c">>, <<>>)>>],
     \* a gallery upload without a sidecar
     [name |-> uploadName(<<>>),
      files |-> <<[name |-> <<"c">>, type |-> "image/png", content |-> ImageBytes]>>] >>

\* the subsequence of s at the indices of S, in order
RECURSIVE Pick(_, _, _)
Pick(s, S, i) ==
  IF i > Len(s) THEN <<>>
  ELSE (IF i \in S THEN <<s[i]>> ELSE <<>>) \o Pick(s, S, i + 1)

\* the backend's n-th upload gets CidOf(n)
Stored(ups) ==
  [n \in 1..Len(ups) |-> [cid |-> CidOf(n), name |-> ups[n].name, files |-> ups[n].files]]

MaxForeign == 2

InitialBackends ==
  {Stored(Pick(ForeignCatalogue, S, 1)) :
     S \in {T \in SUBSET (1..Len(ForeignCatalogue)) : Cardinality(T) <= MaxForeign}}

\* the uploads present at the first page load of a variant.  main.js reads
\* nothing of an upload but its name and compares it with listingUploadName,
\* so for it the account starts empty or with one upload of another name
InitialBackendsOf(v) ==
  IF v = "listing"
    THEN {be \in InitialBackends : Len(be) <= 1 /\ \A n \in 1..Len(be) : be[n].name = Null}
    ELSE InitialBackends

\* GET https://{cid}.ipfs.dweb.link/metadata.json
GatewayResponse(be, cid) ==
  LET sidecars == {f \in UNION {{u.files[j] : j \in 1..Len(u.files)} :
                                  u \in {be[n] : n \in {m \in 1..Len(be) : be[m].cid = cid}}} :
                     f.name = metadataJson}
  IN IF sidecars = {} THEN NotOk
     ELSE [ok |-> TRUE, body |-> (CHOOSE f \in sidecars : TRUE).content]

\* ------------------------------------------------------------------ page load

\* pc: "none" (no pass), "listing" (list() awaited), "fetching" (the sidecar
\* of upload idx awaited), "done", "failed" (the pass ended with an error);
\* items: what the pass yielded; fetched / skipped: the CIDs whose sidecar was
\* requested / whose getImageMetadata threw; lists: the list() calls made;
\* tokenRead: what getSavedToken() returned when the pass began; listedWith:
\* the token that the client sent with the list() request.
\* main.js: pc is "get" (web3storage.get of the CID read from local storage
\* awaited), "find" (the list() of findImageListCID awaited), "getFound" (get
\* of the CID that was found awaited), "done" or "failed"; store: the put call
\* of storeImageList ("none", "pending", "resolved", "rejected"); cached: the
\* CID getGalleryListing read from local storage; gets: the CIDs requested
\* with web3storage.get; imageList: the list getGalleryListing resolved with.
\* part_004: hash is location.hash without its '#'; slideCIDs and
\* selectedSlide are the variables of setupGalleryUI; index is glide.index
\* (the slide shown, counted from 0) once the carousel is mounted
NoListing == [pc |-> "none", idx |-> 0, items |-> <<>>, fetched |-> <<>>,
              skipped |-> <<>>, lists |-> 0, tokenRead |-> Null, listedWith |-> Null,
              store |-> "none", cached |-> Null, gets |-> <<>>, imageList |-> <<>>,
              hash |-> <<>>, slideCIDs |-> <<>>, selectedSlide |-> 0, index |-> 0]

\* the index of the first upload from i on that passes the name filter, or 0
NextMatch(be, i) ==
  LET M == {j \in i..Len(be) : NameMatches(be[j].name)}
  IN IF M = {} THEN 0 ELSE CHOOSE j \in M : \A m \in M : j <= m

\* a loop that requests the sidecars of all the uploads that pass the filter
\* at once
ListingFromAllAtOnce(be, L, i) ==
  LET j == NextMatch(be, i)
      M == {n \in i..Len(be) : NameMatches(be[n].name)}
  IN IF j = 0 THEN [L EXCEPT !.pc = "done", !.idx = Len(be) + 1]
     ELSE [L EXCEPT !.pc = "fetching", !.idx = j,
                    !.fetched = @ \o Pick([n \in 1..Len(be) |-> be[n].cid], M, 1)]

\* the listing loop from upload i on: uploads that fail the filter are skipped
\* without a fetch; the pass awaits the fetch of the first that passes, or ends
ListingFrom(be, L, i) ==
  LET j == NextMatch(be, i)
  IN IF j = 0 THEN [L EXCEPT !.pc = "done", !.idx = Len(be) + 1]
     ELSE [L EXCEPT !.pc = "fetching", !.idx = j, !.fetched = Append(@, be[j].cid)]

\* a gallery view that shows what an earlier view has listed, with no list()
setupGalleryUIFromCache(v, p, tok) ==
  IF ~HasGalleryUI(p) \/ v = "listing" THEN NoListing
  ELSE [NoListing EXCEPT !.pc = "done", !.tokenRead = tok]

\* a setupGalleryUI that does not look for the slide container
setupGalleryUIAnyPage(v, p, tok) ==
  IF v = "listing" THEN NoListing
  ELSE IF tok = Null \/ tok = <<>>
    THEN [NoListing EXCEPT !.pc = IF v = "token" THEN "failed" ELSE "done",
                           !.tokenRead = tok]
  ELSE [NoListing EXCEPT !.pc = "listing", !.lists = 1, !.tokenRead = tok]

\* setupGalleryUI up to its first await.  Without a saved token
\* listImageMetadata returns at once (no list() call), while storageClient()
\* is null in the token variant and getGalleryListing throws on null.list()
setupGalleryUI(v, p, tok) ==
  IF ~HasGalleryUI(p) \/ v = "listing" THEN NoListing
  ELSE IF tok = Null \/ tok = <<>>
    THEN [NoListing EXCEPT !.pc = IF v = "token" THEN "failed" ELSE "done",
                           !.tokenRead = tok]
  ELSE [NoListing EXCEPT !.pc = "listing", !.lists = 1, !.tokenRead = tok]

\* the test code of main.js setup: storeImageList(list) makes its put call and
\* getGalleryListing() reads the stored CID; with one it requests the listing
\* by CID, without one findImageListCID calls list()
setupTestCode(cid) ==
  IF cid # Null /\ cid # <<>>
    THEN [NoListing EXCEPT !.store = "pending", !.pc = "get", !.cached = cid,
                           !.gets = <<cid>>]
    ELSE [NoListing EXCEPT !.store = "pending", !.pc = "find", !.lists = 1]

\* the listing that setup starts in a variant
setupListing(v, p, tok, cid) ==
  IF v = "listing" THEN setupTestCode(cid) ELSE setupGalleryUI(v, p, tok)

\* disabled is uploadButton.disabled: "html" while no handler has assigned it
\* (the attribute is then what the page's HTML says), else "true" or "false"
NoView == [inputs |-> FALSE, progress |-> FALSE, success |-> FALSE,
           galleryHref |-> <<>>, gatewayHref |-> <<>>, disabled |-> "html"]

\* showUploadInputs: the input area shown, the other two views hidden
showUploadInputs(w) == [w EXCEPT !.inputs = TRUE, !.progress = FALSE, !.success = FALSE]

\* setupUploadUI: returns early without the upload-ui element
setupUploadUI(v, p) == IF HasUploadUI(p) THEN showUploadInputs(NoView) ELSE NoView

\* an updateTokenUI that never hides the entry section
updateTokenUIKeepsEntry(tok) ==
  [entry |-> TRUE, saved |-> (tok # Null /\ tok # <<>>)]

\* updateTokenUI: the saved-token section when a token is saved, else the entry
updateTokenUI(tok) ==
  IF tok # Null /\ tok # <<>> THEN [entry |-> FALSE, saved |-> TRUE]
  ELSE [entry |-> TRUE, saved |-> FALSE]

NoTokenView == [entry |-> FALSE, saved |-> FALSE]

\* setupTokenUI: returns early without the token-ui element
setupTokenUI(v, p, tok) == IF HasTokenUI(v, p) THEN updateTokenUI(tok) ELSE NoTokenView

\* a navToPath that assigns the pathname also when it is the current one
navToSettingsAlways(v, p, tok) ==
  IF UsesSavedToken(v) /\ (tok = Null \/ tok = <<>>) THEN SettingsPath ELSE NoNav

\* navToSettings at the end of setup: navToPath assigns the pathname only when
\* it differs from the current one
navToSettings(v, p, tok) ==
  IF UsesSavedToken(v) /\ (tok = Null \/ tok = <<>>) /\ p # SettingsPath
    THEN SettingsPath ELSE NoNav

NoPut == [files |-> <<>>, name |-> Null]

NoMetadata == [thrown |-> FALSE, item |-> EmptyObj]

\* stage "idle": the pure-function specification is not running
PureIdle == [stage |-> "idle", v |-> "carousel", cid |-> Null, file |-> NoFile,
             caption |-> <<>>, put |-> NoPut, result |-> NoResult,
             fetched |-> <<>>, item |-> NoMetadata, body |-> <<>>,
             image |-> NoMetadata]

\* the page-local state after setup() has run on page p opened with the
\* location hash h
LoadedAt(p, h) ==
  /\ page' = p
  /\ selectedFile' = NoFile
  /\ output' = <<>>
  /\ clicks' = <<>>
  /\ putCalls' = <<>>
  /\ tokenView' = setupTokenUI(variant, p, token)
  /\ view' = setupUploadUI(variant, p)
  /\ listing' = [setupListing(variant, p, token, listingCID) EXCEPT !.hash = h]
  /\ navPending' = navToSettings(variant, p, token)

\* the page-local state after setup() has run on page p opened without a hash
Loaded(p) == LoadedAt(p, <<>>)

Init ==
  /\ variant \in Variants
  /\ listingCID = Null
  /\ token \in (IF UsesSavedToken(variant) THEN {Null} \cup Tokens ELSE {Null})
  /\ backend \in InitialBackendsOf(variant)
  /\ page \in Pages
  /\ selectedFile = NoFile
  /\ output = <<>>
  /\ clicks = <<>>
  /\ putCalls = <<>>
  /\ tokenView = setupTokenUI(variant, page, token)
  /\ view = setupUploadUI(variant, page)
  /\ listing = setupListing(variant, page, token, listingCID)
  /\ navPending = navToSettings(variant, page, token)
  /\ pure = PureIdle

\* a page load that loses the saved token
PageLoadForgetsToken(p) ==
  /\ Loaded(p)
  /\ token' = Null
  /\ UNCHANGED <<variant, listingCID, backend, pure>>

\* the browser loads a page (the user follows a link or reloads, or the
\* pending redirect completes); requests of the page left are dropped
PageLoad(p) ==
  /\ Loaded(p)
  /\ UNCHANGED <<variant, listingCID, token, backend, pure>>

\* ------------------------------------------------------------------ upload view

\* fileSelected / fileDropped with a file: handleFileSelected(file) records
\* the file and sets uploadButton.disabled = true for null, else false
handleFileSelected(f) ==
  /\ HasUploadUI(page)
  /\ HidesInputs(variant) => view.inputs
  /\ selectedFile' = f
  /\ view' = [view EXCEPT !.disabled = IF f = NoFile THEN "true" ELSE "false"]
  /\ UNCHANGED <<variant, listingCID, token, backend, page, navPending, tokenView,
                 output, clicks, putCalls, listing, pure>>

\* the files of a change or drop event: two images and a text file
EventFiles ==
  UserFiles \cup
  {[name |-> <<"c">>, type |-> "image/gif", content |-> ImageBytes],
   [name |-> <<"t">>, type |-> "text/plain", content |-> <<"(text)">>]}

\* the lists of files an event can carry (FileList), at most MaxFiles long
MaxFiles == 2

FileLists == UNION {[1..n -> EventFiles] : n \in 0..MaxFiles}

\* f.type.includes('image'), for the types of EventFiles
TypeIncludesImage(type) == type \in {"image/png", "image/gif"}

\* [...files].filter(f => f.type.includes('image'))
RECURSIVE FilterImages(_)
FilterImages(files) ==
  IF files = <<>> THEN <<>>
  ELSE (IF TypeIncludesImage(Head(files).type) THEN <<Head(files)>> ELSE <<>>)
       \o FilterImages(Tail(files))

\* fileSelected(e): the change event of the file input with e.target.files
fileSelected(files) ==
  IF Len(files) < 1
    THEN HasUploadUI(page) /\ (HidesInputs(variant) => view.inputs) /\ UNCHANGED vars
    ELSE handleFileSelected(files[1])

\* a drop handler that takes the first file dropped, image or not
fileDroppedAnyFile(files) ==
  IF Len(files) < 1
    THEN HasUploadUI(page) /\ (HidesInputs(variant) => view.inputs) /\ UNCHANGED vars
    ELSE handleFileSelected(files[1])

\* fileDropped(evt): the drop event of the drop area with evt.dataTransfer.files
fileDropped(files) ==
  LET images == FilterImages(files)
  IN IF Len(images) < 1
       THEN HasUploadUI(page) /\ (HidesInputs(variant) => view.inputs) /\ UNCHANGED vars
       ELSE handleFileSelected(images[1])

\* a progress view shown on top of the inputs
showInProgressUIKeepsInputs(v, w) ==
  IF HidesInputs(v) THEN [w EXCEPT !.progress = TRUE] ELSE w

\* showInProgressUI
showInProgressUI(v, w) ==
  IF HidesInputs(v) THEN [w EXCEPT !.progress = TRUE, !.inputs = FALSE] ELSE w

GalleryHrefPrefix ==
  <<".", "/", "g", "a", "l", "l", "e", "r", "y", ".", "h", "t", "m", "l", "#">>

\* showSuccessView(uploadResult)
showSuccessView(w, r) ==
  [w EXCEPT !.progress = FALSE, !.success = TRUE,
            !.galleryHref = GalleryHrefPrefix \o r.cid,
            !.gatewayHref = r.imageGatewayURL]

\* the view after the .then callback of uploadClicked has run with result r
AfterStored(v, w, r) == IF v = "carousel" THEN showSuccessView(w, r) ELSE w

\* a callback that shows the success view also for an undefined result
AfterUndefinedShowsSuccess(v, w) ==
  IF v = "carousel" THEN [w EXCEPT !.progress = FALSE, !.success = TRUE] ELSE w

\* the view after storeImage has returned undefined (no token): in the
\* carousel variant showSuccessView hides the progress view and then throws
\* on uploadResult.cid; the other callbacks throw while destructuring
AfterUndefined(v, w) == IF v = "carousel" THEN [w EXCEPT !.progress = FALSE] ELSE w

\* a click handler without the null check
IsNoFileNever(f) == FALSE

\* uploadClicked: if (selectedFile == null) return
IsNoFile(f) == f = NoFile

\* storeImage can build a client: a token is saved, or the variant takes the
\* token from the build environment
HasClient(v, tok) == ~UsesSavedToken(v) \/ (tok # Null /\ tok # <<>>)

\* what storeImage shows before the put call
MessagesBeforePut(v, tok) ==
  IF v = "listing" THEN <<>>
  ELSE IF v = "token" \/ HasClient(v, tok) THEN <<"calculating content ID">>
  ELSE <<"no API token found", "settings link">>

\* how a click without a client ends: storeImage returns undefined after its
\* message, or (token variant) rejects with the TypeError of null.put
NoClientStatus(v) == IF v = "token" THEN "threw" ELSE "returned undefined"

\* import.meta.env.VITE_WEB3STORAGE_TOKEN
EnvToken == <<"e", "n", "v">>

\* the token storeImage gives to the client
ClientToken(v, tok) == IF UsesSavedToken(v) THEN tok ELSE EnvToken

\* one click on the upload button: the file and caption it read, how
\* storeImage ended ("no file": not called; "returned undefined"; "threw";
\* "pending"; "resolved"; "rejected"), what it returned, the token it read
\* and the token that the client sent with the put request
Click(f, caption, status, tok) ==
  [file |-> f, caption |-> caption, status |-> status, result |-> NoResult,
   tokenRead |-> tok, sentWith |-> Null]

\* uploadClicked, with storeImage up to its put call
uploadClicked(caption) ==
  /\ HasUploadUI(page)
  /\ HidesInputs(variant) => view.inputs
  /\ Len(clicks) < MaxClicks
  /\ IF IsNoFile(selectedFile)
       THEN /\ clicks' = Append(clicks, Click(NoFile, caption, "no file", Null))
            /\ UNCHANGED <<view, output, putCalls>>
       ELSE /\ output' = output \o MessagesBeforePut(variant, getSavedToken)
            /\ IF HasClient(variant, getSavedToken)
                 THEN /\ putCalls' = Append(putCalls,
                            [click |-> Len(clicks) + 1,
                             files |-> PutFiles(variant, selectedFile, caption),
                             name |-> PutName(variant, caption),
                             token |-> ClientToken(variant, getSavedToken)])
                      /\ clicks' = Append(clicks, Click(selectedFile, caption, "pending",
                                                         ClientToken(variant, getSavedToken)))
                      /\ view' = showInProgressUI(variant, view)
                 ELSE /\ putCalls' = putCalls
                      /\ clicks' = Append(clicks, Click(selectedFile, caption,
                                                         NoClientStatus(variant),
                                                         ClientToken(variant, getSavedToken)))
                      /\ view' = AfterUndefined(variant, showInProgressUI(variant, view))
  /\ UNCHANGED <<variant, listingCID, token, backend, page, navPending, selectedFile,
                 tokenView, listing, pure>>

\* the put call made for click k
PutOf(k) == putCalls[CHOOSE j \in 1..Len(putCalls) : putCalls[j].click = k]

\* what the .then callback shows
MessagesAfterStored(v) == IF v = "carousel" THEN <<>> ELSE <<"stored image", "links">>

\* a put request that is sent with the token found in local storage when the
\* request completes
PutResolvesReadsTokenAgain(k) ==
  /\ k \in 1..Len(clicks)
  /\ clicks[k].status = "pending"
  /\ Len(backend) < MaxBackend
  /\ LET cid == CidOf(Len(backend) + 1)
         r == storeImageResult(variant, clicks[k].file, cid)
     IN /\ backend' = Append(backend, [cid |-> cid, name |-> PutOf(k).name,
                                       files |-> PutOf(k).files])
        /\ clicks' = [clicks EXCEPT ![k].status = "resolved", ![k].result = r,
                                   ![k].sentWith = getSavedToken]
        /\ view' = AfterStored(variant, view, r)
        /\ output' = output \o <<"sent">> \o MessagesAfterStored(variant)
  /\ UNCHANGED <<variant, listingCID, token, page, navPending, selectedFile, tokenView,
                 putCalls, listing, pure>>

\* the put call of click k resolves: the backend holds the bundle under a new
\* CID, storeImage returns its result and the .then callback runs
PutResolves(k) ==
  /\ k \in 1..Len(clicks)
  /\ clicks[k].status = "pending"
  /\ Len(backend) < MaxBackend
  /\ LET cid == CidOf(Len(backend) + 1)
         r == storeImageResult(variant, clicks[k].file, cid)
     IN /\ backend' = Append(backend, [cid |-> cid, name |-> PutOf(k).name,
                                       files |-> PutOf(k).files])
        /\ clicks' = [clicks EXCEPT ![k].status = "resolved", ![k].result = r,
                                   ![k].sentWith = PutOf(k).token]
        /\ view' = AfterStored(variant, view, r)
        /\ output' = output \o <<"sent">> \o MessagesAfterStored(variant)
  /\ UNCHANGED <<variant, listingCID, token, page, navPending, selectedFile, tokenView,
                 putCalls, listing, pure>>

\* a rejected put call that is made again
PutRejectsRetry(k) ==
  /\ k \in 1..Len(clicks)
  /\ clicks[k].status = "pending"
  /\ clicks' = [clicks EXCEPT ![k].status = "rejected"]
  /\ putCalls' = Append(putCalls, PutOf(k))
  /\ UNCHANGED <<variant, listingCID, token, backend, page, navPending, selectedFile, view,
                 tokenView, output, listing, pure>>

\* the put call of click k rejects: storeImage rejects, no callback runs
PutRejects(k) ==
  /\ k \in 1..Len(clicks)
  /\ clicks[k].status = "pending"
  /\ clicks' = [clicks EXCEPT ![k].status = "rejected", ![k].sentWith = PutOf(k).token]
  /\ UNCHANGED <<variant, listingCID, token, backend, page, navPending, selectedFile, view,
                 tokenView, output, putCalls, listing, pure>>

\* ------------------------------------------------------------------ gallery view

\* a loop body that never looks at the location hash
addSlideIgnoresHash(v, L0, L1) ==
  LET mounted == IF L1.pc = "done" THEN [L1 EXCEPT !.index = L1.selectedSlide] ELSE L1
  IN IF v = "carousel" /\ Len(L1.items) > Len(L0.items)
       THEN [mounted EXCEPT !.slideCIDs = Append(@, L1.items[Len(L1.items)].cid)]
       ELSE mounted

\* the loop body of setupGalleryUI in part_004 for the pass L0 that one
\* iteration of listImageMetadata has taken to L1: for a yielded image
\* slideCIDs[i] = image.cid and, when image.cid is the location hash,
\* selectedSlide = i (i counts the slides appended before); when the loop has
\* ended, Glide is mounted with startAt: selectedSlide
addSlide(v, L0, L1) ==
  LET i == Len(L0.items)
      withSlide ==
        IF v = "carousel" /\ Len(L1.items) > i
          THEN LET image == L1.items[Len(L1.items)]
               IN [L1 EXCEPT !.slideCIDs = Append(@, image.cid),
                             !.selectedSlide = IF image.cid = L1.hash THEN i ELSE @]
          ELSE L1
  IN IF withSlide.pc = "done" THEN [withSlide EXCEPT !.index = withSlide.selectedSlide]
     ELSE withSlide

\* web3storage.list() answers: the loop runs up to its first fetch
ListResolves ==
  /\ listing.pc = "listing"
  /\ listing' = addSlide(variant, listing,
                ListingFrom(backend, [listing EXCEPT !.listedWith = listing.tokenRead], 1))
  /\ UNCHANGED <<variant, listingCID, token, backend, page, navPending, selectedFile, view,
                 tokenView, output, clicks, putCalls, pure>>

\* a failed list() that removes the saved token
ListRejectsForgetsToken ==
  /\ listing.pc = "listing"
  /\ listing' = [listing EXCEPT !.pc = "failed"]
  /\ token' = Null
  /\ UNCHANGED <<variant, listingCID, backend, page, navPending, selectedFile, view,
                 tokenView, output, clicks, putCalls, pure>>

\* web3storage.list() fails (network, rejected token): the error leaves the
\* loop, which has no handler around list()
ListRejects ==
  /\ listing.pc = "listing"
  /\ listing' = [listing EXCEPT !.pc = "failed", !.listedWith = listing.tokenRead]
  /\ UNCHANGED <<variant, listingCID, token, backend, page, navPending, selectedFile, view,
                 tokenView, output, clicks, putCalls, pure>>

\* a loop without the try/catch: a thrown error ends the pass
AfterMetadataUncaught(be, L, m) ==
  IF m.thrown THEN [L EXCEPT !.pc = "failed"]
  ELSE ListingFrom(be, [L EXCEPT !.items = Append(@, m.item)], L.idx + 1)

\* a loop that puts the newest item first
AfterMetadataNewestFirst(be, L, m) ==
  ListingFrom(be,
              IF m.thrown THEN [L EXCEPT !.skipped = Append(@, be[L.idx].cid)]
              ELSE [L EXCEPT !.items = <<m.item>> \o @],
              L.idx + 1)

\* the listing after getImageMetadata has ended for upload idx with outcome m:
\* a thrown error is caught and the upload skipped, else the item is yielded
AfterMetadata(be, L, m) ==
  ListingFrom(be,
              IF m.thrown THEN [L EXCEPT !.skipped = Append(@, be[L.idx].cid)]
              ELSE [L EXCEPT !.items = Append(@, m.item)],
              L.idx + 1)

\* the gateway answers the sidecar fetch with what the upload holds
FetchResolves ==
  /\ listing.pc = "fetching"
  /\ LET cid == backend[listing.idx].cid
     IN listing' = addSlide(variant, listing,
                      AfterMetadata(backend, listing,
                        getImageMetadata(variant, cid, GatewayResponse(backend, cid))))
  /\ UNCHANGED <<variant, listingCID, token, backend, page, navPending, selectedFile, view,
                 tokenView, output, clicks, putCalls, pure>>

\* the sidecar fetch fails: the gateway answers with a non-success status, or
\* fetch rejects; either way getImageMetadata throws
FetchFails ==
  /\ listing.pc = "fetching"
  /\ listing' = addSlide(variant, listing,
                   AfterMetadata(backend, listing,
                     getImageMetadata(variant, backend[listing.idx].cid, NotOk)))
  /\ UNCHANGED <<variant, listingCID, token, backend, page, navPending, selectedFile, view,
                 tokenView, output, clicks, putCalls, pure>>

\* the gallery page as its HTML shows it before the pass has changed it: the
\* spinner visible, the carousel and the no-content message hidden
GalleryHtml == [spinner |-> TRUE, carousel |-> FALSE, noContent |-> FALSE]

\* a gallery view that shows the carousel whenever the pass is done
GalleryShownAlwaysCarousel(v, L) ==
  IF L.pc = "done" THEN [GalleryHtml EXCEPT !.spinner = FALSE, !.carousel = TRUE]
  ELSE GalleryHtml

\* what setupGalleryUI has made visible when the pass is in state L.
\* part_004 changes the elements after the loop: the no-content message
\* without images, else the carousel, the spinner hidden in both cases.
\* part_003 shows the carousel and hides the spinner at the first image, and
\* after the loop shows the no-content message when there was none.
GalleryShown(v, L) ==
  IF L.pc = "done" /\ L.items = <<>>
    THEN [GalleryHtml EXCEPT !.spinner = FALSE, !.noContent = TRUE]
  ELSE IF (L.pc = "done" /\ v = "carousel") \/ (L.items # <<>> /\ v = "generator")
    THEN [GalleryHtml EXCEPT !.spinner = FALSE, !.carousel = TRUE]
  ELSE GalleryHtml

\* ------------------------------------------------------------------ image list (main.js)

\* the put call of storeImageList resolves: the backend holds list.json under
\* a new CID, which is written to local storage
storeImageListResolves ==
  /\ listing.store = "pending"
  /\ Len(backend) < MaxBackend
  /\ LET cid == CidOf(Len(backend) + 1)
     IN /\ backend' = Append(backend, [cid |-> cid, name |-> listingUploadName,
                                       files |-> <<listFile(testList)>>])
        /\ listingCID' = cid
  /\ listing' = [listing EXCEPT !.store = "resolved"]
  /\ UNCHANGED <<variant, token, page, navPending, selectedFile, view,
                 tokenView, output, clicks, putCalls, pure>>

\* the put call of storeImageList rejects: nothing is written
storeImageListRejects ==
  /\ listing.store = "pending"
  /\ listing' = [listing EXCEPT !.store = "rejected"]
  /\ UNCHANGED <<variant, listingCID, token, backend, page, navPending,
                 selectedFile, view, tokenView, output, clicks, putCalls, pure>>

\* findImageListCID: the CID of the first enumerated upload whose name is
\* listingUploadName, or Null
findImageListCID(be) ==
  LET M == {n \in 1..Len(be) : be[n].name = listingUploadName}
  IN IF M = {} THEN Null ELSE be[CHOOSE n \in M : \A m \in M : n <= m].cid

\* the list() of findImageListCID answers: without a listing upload
\* getGalleryListing returns [], else it requests the listing by its CID
findResolves ==
  /\ listing.pc = "find"
  /\ LET cid == findImageListCID(backend)
     IN listing' = IF cid = Null THEN [listing EXCEPT !.pc = "done"]
                   ELSE [listing EXCEPT !.pc = "getFound", !.gets = Append(@, cid)]
  /\ UNCHANGED <<variant, listingCID, token, backend, page, navPending,
                 selectedFile, view, tokenView, output, clicks, putCalls, pure>>

\* the list() of findImageListCID fails: getGalleryListing rejects
findRejects ==
  /\ listing.pc = "find"
  /\ listing' = [listing EXCEPT !.pc = "failed"]
  /\ UNCHANGED <<variant, listingCID, token, backend, page, navPending,
                 selectedFile, view, tokenView, output, clicks, putCalls, pure>>

\* web3storage.get(cid): the files of the upload, or a non-success status
GetResponse(be, cid) ==
  LET M == {n \in 1..Len(be) : be[n].cid = cid}
  IN IF M = {} THEN [ok |-> FALSE, files |-> <<>>]
     ELSE [ok |-> TRUE, files |-> be[CHOOSE n \in M : TRUE].files]

\* getImageListByCID after get has resolved with res: thrown is TRUE when it
\* throws (non-OK status, no files, SyntaxError of JSON.parse), else list is
\* what it returns
getImageListByCID(res) ==
  IF ~res.ok \/ Len(res.files) < 1 THEN [thrown |-> TRUE, list |-> <<>>]
  ELSE LET parsed == JSONParseList(res.files[1].content)
       IN IF parsed.kind = "array" THEN [thrown |-> FALSE, list |-> parsed.val]
          ELSE [thrown |-> TRUE, list |-> <<>>]

\* getGalleryListing after getImageListByCID has ended with outcome r.  The
\* promise of getImageListByCID is returned without await, so its rejection
\* passes by the catch block: the stored CID stays and the listing rejects
AfterImageList(L, r) ==
  IF r.thrown THEN [L EXCEPT !.pc = "failed"]
  ELSE [L EXCEPT !.pc = "done", !.imageList = r.list]

\* web3storage.get answers the request of the listing
getResolves ==
  /\ listing.pc \in {"get", "getFound"}
  /\ listing' = AfterImageList(listing,
                   getImageListByCID(GetResponse(backend, listing.gets[Len(listing.gets)])))
  /\ UNCHANGED <<variant, listingCID, token, backend, page, navPending,
                 selectedFile, view, tokenView, output, clicks, putCalls, pure>>

\* web3storage.get answers with a non-success status
getFails ==
  /\ listing.pc \in {"get", "getFound"}
  /\ listing' = AfterImageList(listing,
                   getImageListByCID([ok |-> FALSE, files |-> <<>>]))
  /\ UNCHANGED <<variant, listingCID, token, backend, page, navPending,
                 selectedFile, view, tokenView, output, clicks, putCalls, pure>>

\* ------------------------------------------------------------------ token view

\* tokenInput.onchange: an empty value is ignored
tokenInputChanged(value) ==
  /\ HasTokenUI(variant, page)
  /\ tokenView.entry
  /\ IF value = <<>>
       THEN UNCHANGED <<token, tokenView>>
       ELSE /\ token' = value
            /\ tokenView' = updateTokenUI(value)
  /\ UNCHANGED <<variant, listingCID, backend, page, navPending, selectedFile, view,
                 output, clicks, putCalls, listing, pure>>

\* tokenDeleteButton.onclick
tokenDeleteClicked ==
  /\ HasTokenUI(variant, page)
  /\ token' = Null
  /\ tokenView' = updateTokenUI(Null)
  /\ UNCHANGED <<variant, listingCID, backend, page, navPending, selectedFile, view,
                 output, clicks, putCalls, listing, pure>>

\* ------------------------------------------------------------------ specification

Next ==
  \/ \E p \in Pages : PageLoad(p)
  \/ \E f \in UserFiles : handleFileSelected(f)
  \/ \E c \in Captions : uploadClicked(c)
  \/ \E k \in 1..MaxClicks : PutResolves(k)
  \/ \E k \in 1..MaxClicks : PutRejects(k)
  \/ ListResolves
  \/ ListRejects
  \/ FetchResolves
  \/ FetchFails
  \/ storeImageListResolves
  \/ storeImageListRejects
  \/ findResolves
  \/ findRejects
  \/ getResolves
  \/ getFails
  \/ \E t \in Tokens \cup {<<>>} : tokenInputChanged(t)
  \/ tokenDeleteClicked

Spec == Init /\ [][Next]_vars

\* ------------------------------------------------------------------ the carousel

\* the hashes a gallery URL is opened with: the CID of an upload, or of none
Hashes == {CidOf(n) : n \in 1..MaxBackend} \cup {<<"n", "o">>}

\* the browser loads gallery.html#h (a bookmark, a link that was shared)
openGallery(h) ==
  /\ LoadedAt("/gallery.html", h)
  /\ UNCHANGED <<variant, listingCID, token, backend, pure>>

\* the user follows the gallery link of the success view, which
\* showSuccessView has set to ./gallery.html#{cid}
followGalleryLink ==
  /\ view.success
  /\ StartsWith(view.galleryHref, GalleryHrefPrefix)
  /\ LoadedAt("/gallery.html",
              SubSeq(view.galleryHref, Len(GalleryHrefPrefix) + 1, Len(view.galleryHref)))
  /\ UNCHANGED <<variant, listingCID, token, backend, pure>>

\* Glide has moved to slide i (arrows, swipe): its 'move.after' handler runs
\* setLocationHash(slideCIDs[glide.index])
glideMove(i) ==
  /\ variant = "carousel"
  /\ HasGalleryUI(page)
  /\ listing.pc = "done"
  /\ i \in 0..(Len(listing.slideCIDs) - 1)
  /\ listing' = [listing EXCEPT !.index = i, !.hash = listing.slideCIDs[i + 1]]
  /\ UNCHANGED <<variant, listingCID, token, backend, page, navPending, selectedFile,
                 view, tokenView, output, clicks, putCalls, pure>>

\* the final version of main.js (part_004) with its gallery opened by URLs
\* that carry a hash, and the carousel moved
InitGlide == Init /\ variant = "carousel" /\ token \in Tokens

NextGlide ==
  \/ \E p \in Pages : PageLoad(p)
  \/ \E h \in Hashes : openGallery(h)
  \/ followGalleryLink
  \/ \E i \in 0..(MaxBackend - 1) : glideMove(i)
  \/ \E f \in UserFiles : handleFileSelected(f)
  \/ \E c \in Captions : uploadClicked(c)
  \/ \E k \in 1..MaxClicks : PutResolves(k)
  \/ \E k \in 1..MaxClicks : PutRejects(k)
  \/ ListResolves
  \/ ListRejects
  \/ FetchResolves
  \/ FetchFails

SpecGlide == InitGlide /\ [][NextGlide]_vars

\* ------------------------------------------------------------------ file events

\* the final version of main.js (part_004) with the change and drop events of
\* its upload page, and handleFileSelected called with any argument; the
\* caption, which plays no part in the selection, is left empty
InitFiles == Init /\ variant = "carousel" /\ token \in Tokens /\ backend = <<>>

NextFiles ==
  \/ \E p \in Pages : PageLoad(p)
  \/ \E fs \in FileLists : fileSelected(fs)
  \/ \E fs \in FileLists : fileDropped(fs)
  \/ \E f \in EventFiles \cup {NoFile} : handleFileSelected(f)
  \/ uploadClicked(<<>>)
  \/ \E k \in 1..MaxClicks : PutResolves(k)
  \/ \E k \in 1..MaxClicks : PutRejects(k)

SpecFiles == InitFiles /\ [][NextFiles]_vars

\* ------------------------------------------------------------------ a second tab

\* Local storage is shared by the tabs of the origin: the settings page open
\* in another tab can save or delete the token while this tab has an upload
\* or a listing pass in flight.  The application does not listen to storage
\* events, so nothing else of this tab changes.

\* the tokens a user may paste in the other tab
TabTokens == Tokens \cup {<<"n", "e", "w">>}

\* tokenInput.onchange of the settings page in the other tab
otherTabSavesToken(value) ==
  /\ token # value
  /\ token' = value
  /\ UNCHANGED <<variant, listingCID, backend, page, navPending, selectedFile,
                 view, tokenView, output, clicks, putCalls, listing, pure>>

\* tokenDeleteButton.onclick of the settings page in the other tab
otherTabDeletesToken ==
  /\ token # Null
  /\ token' = Null
  /\ UNCHANGED <<variant, listingCID, backend, page, navPending, selectedFile,
                 view, tokenView, output, clicks, putCalls, listing, pure>>

\* the final version of main.js (part_004) with a second tab
InitTabs == Init /\ variant = "carousel"

NextTabs ==
  \/ \E p \in Pages : PageLoad(p)
  \/ \E f \in UserFiles : handleFileSelected(f)
  \/ \E c \in Captions : uploadClicked(c)
  \/ \E k \in 1..MaxClicks : PutResolves(k)
  \/ \E k \in 1..MaxClicks : PutRejects(k)
  \/ ListResolves
  \/ ListRejects
  \/ FetchResolves
  \/ FetchFails
  \/ \E t \in Tokens \cup {<<>>} : tokenInputChanged(t)
  \/ tokenDeleteClicked
  \/ \E t \in TabTokens : otherTabSavesToken(t)
  \/ otherTabDeletesToken

SpecTabs == InitTabs /\ [][NextTabs]_vars

\* ------------------------------------------------------------------ pure functions

\* storeImage and getImageMetadata as functions of their inputs: Init draws a
\* variant, a CID, a file name and a caption; storeImage is applied to them,
\* then getImageMetadata to the sidecar that storeImage built

NameChars == {"a", " ", "\""}

CaptionChars == {"h", "\"", "\\", "|"}

PureNames == StringsOver(NameChars, 1, MaxLen)

\* short captions, and the captions that hold the prefix
PureCaptions ==
  StringsOver(CaptionChars, 0, MaxLen) \cup {namePrefix, uploadName(<<"h">>)}

PureInputs ==
  {[stage |-> "input", v |-> v, cid |-> CidOf(1),
    file |-> [name |-> n, type |-> "image/png", content |-> ImageBytes],
    caption |-> c, put |-> NoPut, result |-> NoResult, fetched |-> <<>>,
    item |-> NoMetadata, body |-> <<>>, image |-> NoMetadata] :
     v \in Variants, n \in PureNames, c \in PureCaptions}

InitPure ==
  /\ pure \in PureInputs
  /\ variant = pure.v
  /\ listingCID = Null
  /\ token = Null
  /\ backend = <<>>
  /\ page = SettingsPath
  /\ selectedFile = NoFile
  /\ output = <<>>
  /\ clicks = <<>>
  /\ putCalls = <<>>
  /\ tokenView = setupTokenUI(variant, page, token)
  /\ view = setupUploadUI(variant, page)
  /\ listing = setupListing(variant, page, token, listingCID)
  /\ navPending = navToSettings(variant, page, token)

\* storeImage(file, caption) with a put call that resolves with pure.cid
PureStore ==
  /\ pure.stage = "input"
  /\ pure' = [pure EXCEPT
       !.stage = "stored",
       !.put = [files |-> PutFiles(pure.v, pure.file, pure.caption),
                name |-> PutName(pure.v, pure.caption)],
       !.result = storeImageResult(pure.v, pure.file, pure.cid)]
  /\ UNCHANGED appVars

\* listImageMetadata over an account that holds the upload of storeImage and
\* nothing else: getImageMetadata(cid) is called when the upload passes the
\* filter, with a gateway that returns the stored sidecar
PureFetch ==
  /\ pure.stage = "stored"
  /\ pure.v # "listing"
  /\ LET be == <<[cid |-> pure.cid, name |-> pure.put.name, files |-> pure.put.files]>>
         fetched == ListingFrom(be, NoListing, 1).fetched
     IN pure' = [pure EXCEPT
          !.stage = "fetched",
          !.fetched = fetched,
          !.item = IF fetched = <<>> THEN NoMetadata
                   ELSE getImageMetadata(pure.v, fetched[1], GatewayResponse(be, fetched[1]))]
  /\ UNCHANGED appVars

\* the gateway answers the sidecar request for pure.cid with body: item is
\* what getImageMetadata of part_004 makes of it, image what the loop body of
\* getGalleryListing of part_003:1071-1099 does.  Neither reads the file or
\* the caption of the inputs, so the answers are tried for one caption only
PureFetchSidecar(body) ==
  /\ pure.stage = "input"
  /\ pure.v = "carousel"
  /\ pure.caption = <<>>
  /\ pure' = [pure EXCEPT
       !.stage = "answered",
       !.body = body,
       !.item = getImageMetadata(pure.v, pure.cid, [ok |-> TRUE, body |-> body]),
       !.image = getGalleryListingImage(pure.cid, [ok |-> TRUE, body |-> body])]
  /\ UNCHANGED appVars

NextPure == PureStore \/ PureFetch \/ \E body \in SidecarBodies : PureFetchSidecar(body)

SpecPure == InitPure /\ [][NextPure]_vars

\* ------------------------------------------------------------------ properties

\* the elements of a sequence
Range(s) == {s[i] : i \in 1..Len(s)}

\* s without its prefix p (s itself when p is no prefix of it)
After(s, p) ==
  IF Len(s) >= Len(p) /\ SubSeq(s, 1, Len(p)) = p
    THEN SubSeq(s, Len(p) + 1, Len(s)) ELSE <<"(not a prefix)">> \o s

\* 'ImageGallery|'
PrefixBar == <<"I", "m", "a", "g", "e", "G", "a", "l", "l", "e", "r", "y", "|">>

\* name starts with 'ImageGallery'
HasGalleryPrefix(name) ==
  /\ Len(name) >= 12
  /\ SubSeq(name, 1, 12) = <<"I", "m", "a", "g", "e", "G", "a", "l", "l", "e", "r", "y">>

\* 'https://{cid}.ipfs.dweb.link/' and 'ipfs://{cid}/'
GatewayBase(cid) == HttpsScheme \o cid \o GatewayHost

IpfsBase(cid) == IpfsScheme \o cid \o <<"/">>

\* the character a percent code stands for
PercentChar(h1, h2) ==
  CASE <<h1, h2>> = <<"2", "0">> -> " "
    [] <<h1, h2>> = <<"2", "2">> -> "\""
    [] <<h1, h2>> = <<"2", "5">> -> "%"
    [] <<h1, h2>> = <<"5", "C">> -> "\\"
    [] <<h1, h2>> = <<"7", "C">> -> "|"
    [] OTHER -> "?"

\* decodeURIComponent
RECURSIVE PercentDecode(_)
PercentDecode(e) ==
  IF e = <<>> THEN <<>>
  ELSE IF Head(e) = "%" /\ Len(e) >= 3
    THEN <<PercentChar(e[2], e[3])>> \o PercentDecode(SubSeq(e, 4, Len(e)))
  ELSE <<Head(e)>> \o PercentDecode(Tail(e))

\* e is the percent-encoding of path: it decodes to path and every character
\* of path that is not a letter or a dot is written as a percent code
IsPercentEncodingOf(e, path) ==
  /\ PercentDecode(e) = path
  /\ \A i \in 1..Len(e) : e[i] \notin {" ", "\"", "\\", "|", "#", "?", "/"}

\* the put calls made for click k
PutCount(k) == Cardinality({j \in 1..Len(putCalls) : putCalls[j].click = k})

FourLinks == {"imageGatewayURL", "metadataGatewayURL", "imageURI", "metadataURI"}

\* C1, as stated: when put resolves with a CID, storeImage (part_004) returns
\* that CID and exactly four links built from it, and the path component of
\* each link equals the image file name or 'metadata.json'.
C1_PathEqualsFilename ==
  (pure.stage \in {"stored", "fetched"} /\ pure.v = "carousel") =>
    LET r == pure.result IN
      /\ DOMAIN r = {"cid"} \cup FourLinks
      /\ r.cid = pure.cid
      /\ After(r.imageGatewayURL, GatewayBase(pure.cid)) = pure.file.name
      /\ After(r.metadataGatewayURL, GatewayBase(pure.cid)) = metadataJson
      /\ After(r.imageURI, IpfsBase(pure.cid)) = pure.file.name
      /\ After(r.metadataURI, IpfsBase(pure.cid)) = metadataJson

\* C1, amended: storeImage returns that CID and exactly four links built from
\* it; the path component of the two ipfs:// URIs equals the image file name
\* and 'metadata.json', and the path component of the two gateway URLs is the
\* percent-encoding of the image file name and of 'metadata.json'.
C1_PathIsEncodedFilename ==
  (pure.stage \in {"stored", "fetched"} /\ pure.v = "carousel") =>
    LET r == pure.result IN
      /\ DOMAIN r = {"cid"} \cup FourLinks
      /\ r.cid = pure.cid
      /\ IsPercentEncodingOf(After(r.imageGatewayURL, GatewayBase(pure.cid)),
                             pure.file.name)
      /\ After(r.metadataGatewayURL, GatewayBase(pure.cid)) = metadataJson
      /\ After(r.imageURI, IpfsBase(pure.cid)) = pure.file.name
      /\ After(r.metadataURI, IpfsBase(pure.cid)) = metadataJson

\* storeImage has returned for a file whose name holds a space
C1_Witness ==
  /\ pure.stage = "stored"
  /\ pure.v = "carousel"
  /\ " " \in Range(pure.file.name)
  /\ pure.result.cid = pure.cid

\* the CIDs of the items the pass yielded
ItemCids == {listing.items[i][kCid] : i \in 1..Len(listing.items)}

\* C2: whatever subset of the sidecar fetches fails, the pass does not end
\* with an error once it fetches (a failing upload is only skipped), and when
\* it is done every upload with the prefix is either skipped by such a
\* failure or yielded as an item, never both.
C2_PartialFailureIsolation ==
  /\ listing.pc = "failed" => listing.fetched = <<>>
  /\ listing.pc = "done" /\ listing.lists = 1 =>
       \A n \in 1..Len(backend) :
         HasGalleryPrefix(backend[n].name) =>
           (backend[n].cid \in Range(listing.skipped)) # (backend[n].cid \in ItemCids)
  /\ Len(listing.skipped) + Len(listing.items) <= Len(listing.fetched)

\* a pass is done in which one sidecar failed and another upload was yielded
C2_Witness ==
  /\ listing.pc = "done"
  /\ listing.skipped # <<>>
  /\ listing.items # <<>>

\* C3: no item is yielded, and no sidecar is fetched, for an upload whose name
\* is missing or does not start with 'ImageGallery'.
C3_OnlyPrefixedUploads ==
  \A n \in 1..Len(backend) :
    (backend[n].cid \in ItemCids \/ backend[n].cid \in Range(listing.fetched)) =>
      (backend[n].name # Null /\ HasGalleryPrefix(backend[n].name))

\* a pass is done that yielded an item while the backend also lists an upload
\* of another application that has a valid sidecar, and one without a name
C3_Witness ==
  /\ listing.pc = "done"
  /\ listing.items # <<>>
  /\ \E n \in 1..Len(backend) :
       /\ backend[n].name # Null
       /\ ~HasGalleryPrefix(backend[n].name)
       /\ GatewayResponse(backend, backend[n].cid).ok

\* C4, as stated: without a saved token storeImage makes no put call, shows a
\* message and returns without throwing or rejecting (part_004 and part_000).
C4_NoTokenIsAMessage ==
  \A k \in 1..Len(clicks) :
    (clicks[k].file # NoFile /\ variant \in {"carousel", "token"}
       /\ clicks[k].tokenRead = Null) =>
      /\ PutCount(k) = 0
      /\ clicks[k].status = "returned undefined"
      /\ "no API token found" \in Range(output)

\* C5, as stated: the listing is empty and not a failure when no name has the
\* prefix and when no token is saved, and then no list() call is made
\* (part_004 and part_000).
C5_EmptyNotFailure ==
  /\ (variant \in {"carousel", "token"} /\ HasGalleryUI(page)
        /\ listing.tokenRead = Null) =>
       (listing.pc = "done" /\ listing.items = <<>> /\ listing.lists = 0)
  /\ (listing.pc = "done"
        /\ \A n \in 1..Len(backend) : ~HasGalleryPrefix(backend[n].name)) =>
       listing.items = <<>>

\* C6, as stated: every click with a file selected causes exactly one put
\* call, also after that call has failed (part_004).
C6_ExactlyOnePut ==
  \A k \in 1..Len(clicks) :
    (variant = "carousel" /\ clicks[k].file # NoFile) => PutCount(k) = 1

\* C6, amended: every click with a file selected causes exactly one put call
\* when storeImage has a token and none when no token is saved, and after the
\* call has failed no further put call is made for that click.
C6_OnePutWithTokenNoneWithout ==
  \A k \in 1..Len(clicks) :
    clicks[k].file # NoFile =>
      PutCount(k) = (IF clicks[k].tokenRead = Null THEN 0 ELSE 1)

\* the put call of a click has failed
C6_Witness ==
  \E k \in 1..Len(clicks) : clicks[k].status = "rejected" /\ PutCount(k) = 1

\* C7: a click while no file is selected calls no storeImage, makes no put
\* call and no other request, and changes no view.
C7_NoFileIsNoop ==
  [][(selectedFile = NoFile /\ Len(clicks') = Len(clicks) + 1) =>
       /\ clicks'[Len(clicks')].status = "no file"
       /\ UNCHANGED <<putCalls, view, output, backend, listing, selectedFile,
                      token, page, navPending>>]_vars

\* the button was clicked while no file was selected
C7_Witness ==
  \E k \in 1..Len(clicks) : clicks[k].file = NoFile /\ clicks[k].status = "no file"

\* C8: decoding the sidecar that storeImage built gives the path and the
\* caption that were sent.
C8_SidecarRoundTrip ==
  pure.stage = "fetched" =>
    /\ ~pure.item.thrown
    /\ Get(pure.item.item, kPath) = pure.file.name
    /\ Get(pure.item.item, kCaption) = pure.caption

\* a sidecar was decoded whose caption holds a quote and whose path a space
C8_Witness ==
  /\ pure.stage = "fetched"
  /\ "\"" \in Range(pure.caption)
  /\ " " \in Range(pure.file.name)
  /\ ~pure.item.thrown

\* C9, as stated: makeGatewayURL(cid, path) is 'https://{cid}.ipfs.dweb.link/'
\* followed by the percent-encoded path (part_004, part_003, part_000).
C9_PathIsPercentEncoded ==
  (pure.stage = "stored" /\ pure.v \in {"carousel", "generator", "token"}) =>
    IsPercentEncodingOf(After(pure.result.imageGatewayURL, GatewayBase(pure.cid)),
                        pure.file.name)

IndexOfCid(cid) == CHOOSE n \in 1..Len(backend) : backend[n].cid = cid

\* C11: the CIDs of the items a listing pass yields are a subsequence of the
\* CIDs list() enumerates: each belongs to an enumerated upload, and a later
\* item belongs to a later upload.
C11_ItemsInEnumerationOrder ==
  /\ \A i \in 1..Len(listing.items) :
       \E n \in 1..Len(backend) : backend[n].cid = listing.items[i][kCid]
  /\ \A i, j \in 1..Len(listing.items) :
       i < j => IndexOfCid(listing.items[i][kCid]) < IndexOfCid(listing.items[j][kCid])

\* a pass is done that yielded two items
C11_Witness ==
  /\ listing.pc = "done"
  /\ Len(listing.items) = 2
  /\ listing.skipped = <<>>

\* the sidecar fetches of the pass that were requested and have not ended
FetchesInFlight == Len(listing.fetched) - Len(listing.skipped) - Len(listing.items)

\* C12: at most one sidecar fetch is in flight at any time, and a fetch is in
\* flight exactly while the pass awaits getImageMetadata: the next fetch
\* starts only when the previous one has resolved or failed.
C12_OneFetchAtATime ==
  /\ FetchesInFlight \in {0, 1}
  /\ FetchesInFlight = 1 <=> listing.pc = "fetching"

\* the second fetch of a pass is in flight after the first one has ended
C12_Witness ==
  /\ listing.pc = "fetching"
  /\ Len(listing.fetched) = 2
  /\ Len(listing.skipped) + Len(listing.items) = 1

\* the upload the backend holds under the CID that click k was given
StoredBy(k) == backend[IndexOfCid(clicks[k].result.cid)]

C14_SidecarPathIsImageName ==
  (pure.stage \in {"stored", "fetched"} /\ pure.v # "listing") =>
    LET parsed == JSONParse(pure.put.files[2].content) IN
      /\ parsed.kind = "object"
      /\ Get(parsed.val, kPath) = pure.put.files[1].name
      /\ pure.put.files[1] = pure.file

\* a put call was made for a file whose name holds a quote
C14_Witness ==
  /\ pure.stage = "stored"
  /\ pure.v = "carousel"
  /\ "\"" \in Range(pure.put.files[1].name)
  /\ pure.put.files[2].name = metadataJson

\* C15: the saved token changes only in a step of the token input's change
\* handler or of the delete button's click handler; storeImage, the listing
\* pass and getImageMetadata leave it as it is, whatever their outcome.
C15_TokenWrittenOnlyBySettings ==
  [][token' # token =>
       (tokenDeleteClicked \/ \E t \in Tokens : tokenInputChanged(t))]_vars

\* with a token saved, an upload was rejected or a listing pass has failed
\* after its list() call
C15_Witness ==
  /\ token # Null
  /\ \/ \E k \in 1..Len(clicks) : clicks[k].status = "rejected"
     \/ listing.pc = "failed" /\ listing.lists = 1

\* a gallery view of a variant with sidecars whose pass has read a token
GalleryViewWithToken ==
  variant # "listing" /\ HasGalleryUI(page) /\ listing.tokenRead # Null

UploadedHere ==
  \E n \in 1..Len(backend) : backend[n].files[1] \in UserFiles

\* C17: in the variants that keep the token in local storage, after setup
\* has run a navigation to /settings.html is triggered exactly when no token
\* is saved and the page is another one; on /settings.html setup triggers no
\* navigation, so the redirect does not loop.
C17_RedirectOnlyOffSettings ==
  UsesSavedToken(variant) =>
    /\ navPending \in {NoNav, SettingsPath}
    /\ navPending = SettingsPath <=> (token = Null /\ page # SettingsPath)
    /\ page = SettingsPath => navPending = NoNav

\* after uploads were made and the token was deleted, setup has run on
\* /settings.html with no token saved and no navigation follows
C17_Witness ==
  /\ variant = "carousel"
  /\ page = SettingsPath
  /\ token = Null
  /\ tokenView.entry
  /\ navPending = NoNav
  /\ UploadedHere

\* C18: while a token is saved, every step but a click on the delete button
\* leaves a token saved and leaves no redirect to the settings page pending:
\* page loads, uploads and listings do not lose it.
C18_TokenStaysUntilDeleted ==
  [][(token # Null /\ ~tokenDeleteClicked) =>
       (token' # Null /\ token' # <<>> /\ navPending' = NoNav)]_vars

\* with the token still saved, a gallery view shows two images that were
\* uploaded in this session
C18_Witness ==
  /\ variant = "carousel"
  /\ token # Null
  /\ HasGalleryUI(page)
  /\ navPending = NoNav
  /\ Len(listing.items) = 2

\* C19: in the variants whose setup calls the three setup functions on every
\* page, a setup function whose element is absent has no effect: without the
\* slide container no list() call and no sidecar fetch is made, without the
\* upload elements no file is selected and no upload made, without the token
\* elements no token section is shown.
C19_SetupReturnsEarly ==
  variant # "listing" =>
    /\ ~HasGalleryUI(page) => listing = NoListing
    /\ ~HasUploadUI(page) =>
         (view = NoView /\ selectedFile = NoFile /\ clicks = <<>> /\ putCalls = <<>>)
    /\ ~HasTokenUI(variant, page) => tokenView = NoTokenView

\* the upload page was set up again after uploads were made: the upload
\* inputs are shown, and no listing pass was started
C19_Witness ==
  /\ variant = "carousel"
  /\ HasUploadUI(page)
  /\ token # Null
  /\ view.inputs
  /\ listing.lists = 0
  /\ UploadedHere

\* C20: the token an upload or a listing pass uses is the one it read when it
\* began.  A click reads the token saved at that moment; the put request of
\* the click and the list() request of a pass are sent with the token that was
\* read, whatever was saved or deleted in between, and a token that was read
\* is not replaced while the operation lasts (a page load ends it).
C20_CredentialReadOnce ==
  [][/\ \A k \in 1..Len(clicks') :
          /\ clicks'[k].status \in {"resolved", "rejected"} =>
               clicks'[k].sentWith = clicks'[k].tokenRead
          /\ (k <= Len(clicks) /\ ~(\E p \in Pages : PageLoad(p))) =>
               clicks'[k].tokenRead = clicks[k].tokenRead
          /\ (k > Len(clicks) /\ clicks'[k].file # NoFile) =>
               clicks'[k].tokenRead = token
     /\ \A j \in 1..Len(putCalls') :
          putCalls'[j].token = clicks'[putCalls'[j].click].tokenRead
     /\ listing'.pc \in {"fetching", "done", "failed"} /\ listing'.lists = 1 =>
          listing'.listedWith = listing'.tokenRead
     /\ (listing.pc \in {"listing", "fetching"} /\ ~(\E p \in Pages : PageLoad(p))) =>
          listing'.tokenRead = listing.tokenRead]_vars

\* an upload has resolved, sent with the token its click read, while another
\* token or none is saved by now
C20_Witness ==
  \E k \in 1..Len(clicks) :
    /\ clicks[k].status = "resolved"
    /\ clicks[k].sentWith = clicks[k].tokenRead
    /\ clicks[k].tokenRead # token

\* C21: on the settings page exactly one of the two token sections is
\* visible, the saved-token section when a token is saved and the entry
\* section when none is; and a change event with an empty value leaves the
\* saved token and the sections as they are.
C21_OneTokenSection ==
  /\ [](HasTokenUI(variant, page) =>
          /\ tokenView.entry # tokenView.saved
          /\ tokenView.saved <=> (token # Null /\ token # <<>>))
  /\ [][tokenInputChanged(<<>>) => UNCHANGED <<token, tokenView>>]_vars

\* the settings page of part_004 shows the saved-token section, the token
\* having been used for an upload
C21_Witness ==
  /\ variant = "carousel"
  /\ page = SettingsPath
  /\ tokenView.saved
  /\ ~tokenView.entry
  /\ token \in Tokens
  /\ UploadedHere

StartFor(cids, h) ==
  LET M == {i \in 1..Len(cids) : cids[i] = h}
  IN IF M = {} THEN 0 ELSE (CHOOSE i \in M : TRUE) - 1

\* C23: in part_004 the i-th entry of slideCIDs is the CID of the i-th slide
\* appended; when the pass ends the carousel is mounted at the slide whose CID
\* is the location hash if the listing has such an image and at slide 0
\* otherwise; and the hash written after a move is the CID of the slide shown.
C23_StartsAtHashSlide ==
  /\ []((variant = "carousel" /\ HasGalleryUI(page)) =>
          /\ Len(listing.slideCIDs) = Len(listing.items)
          /\ \A i \in 1..Len(listing.items) : listing.slideCIDs[i] = listing.items[i].cid)
  /\ [][(listing.pc # "done" /\ listing'.pc = "done" /\ HasGalleryUI(page')) =>
          listing'.index = StartFor([i \in 1..Len(listing'.items) |-> listing'.items[i].cid],
                                    listing'.hash)]_vars
  /\ [][\A i \in 0..(MaxBackend - 1) : glideMove(i) =>
          /\ listing'.index = i
          /\ listing'.hash = listing'.items[i + 1].cid]_vars

\* the gallery opened with the CID of the second image as hash: the carousel
\* started at the second slide, and has since been moved to the first
C23_Witness ==
  /\ variant = "carousel"
  /\ HasGalleryUI(page)
  /\ listing.pc = "done"
  /\ Len(listing.items) = 2
  /\ listing.selectedSlide = 1
  /\ listing.index = 0
  /\ listing.hash = listing.items[1].cid

\* the first file of a list whose type is an image type
FirstImage(files) ==
  files[CHOOSE i \in 1..Len(files) :
          /\ TypeIncludesImage(files[i].type)
          /\ \A j \in 1..(i - 1) : ~TypeIncludesImage(files[j].type)]

HasImage(files) == \E i \in 1..Len(files) : TypeIncludesImage(files[i].type)

\* C24: handleFileSelected(file) records file as the selected file and leaves
\* the upload button disabled exactly when file is null (so whenever a handler
\* has set the button, it is disabled iff no file is selected); a change event
\* without files and a drop without an image file leave the selected file and
\* the button unchanged; a drop with several files selects the first image.
C24_FileSelection ==
  /\ [](HasUploadUI(page) =>
          /\ view.disabled = "html" => selectedFile = NoFile
          /\ view.disabled # "html" => (view.disabled = "true" <=> selectedFile = NoFile))
  /\ [][\A f \in EventFiles \cup {NoFile} : handleFileSelected(f) =>
          /\ selectedFile' = f
          /\ view'.disabled \in {"true", "false"}
          /\ view'.disabled = "true" <=> f = NoFile]_vars
  /\ [][fileSelected(<<>>) => UNCHANGED <<selectedFile, view>>]_vars
  /\ [][\A fs \in FileLists :
          fileDropped(fs) =>
            IF HasImage(fs)
              THEN selectedFile' = FirstImage(fs) /\ view'.disabled = "false"
              ELSE UNCHANGED <<selectedFile, view>>]_vars

\* the second image of the events is the selected file (a text file and the
\* image were dropped, say) and the button is enabled
C24_Witness ==
  /\ variant = "carousel"
  /\ HasUploadUI(page)
  /\ selectedFile.type = "image/gif"
  /\ view.disabled = "false"

\* C25: every upload that storeImage of part_004 stores, for every caption
\* (empty, with '|', or holding the prefix), has a name that the filter of
\* listImageMetadata accepts, so that the listing requests its sidecar.
C25_OwnUploadsPassFilter ==
  (pure.v = "carousel" /\ pure.stage \in {"stored", "fetched"}) =>
    /\ StartsWith(pure.put.name, namePrefix)
    /\ NameMatches(pure.put.name)
    /\ pure.stage = "fetched" => pure.fetched = <<pure.cid>>

\* the upload of a caption that begins with '|' has been listed
C25_Witness ==
  /\ pure.v = "carousel"
  /\ pure.stage = "fetched"
  /\ Len(pure.caption) = 2
  /\ pure.caption[1] = "|"
  /\ pure.fetched = <<pure.cid>>

\* C26: in part_004 the imageGatewayURL and imageURI that storeImage returns
\* are the gatewayURL and uri of the item that getImageMetadata builds for
\* the same CID from the sidecar storeImage wrote, for every file name and
\* caption.
C26_UploadAndListingLinksAgree ==
  (pure.v = "carousel" /\ pure.stage = "fetched") =>
    /\ ~pure.item.thrown
    /\ Get(pure.item.item, kGatewayURL) = pure.result.imageGatewayURL
    /\ Get(pure.item.item, kUri) = pure.result.imageURI
    /\ Get(pure.item.item, kCid) = pure.result.cid

\* the links of a file whose name holds a space and a quote were compared
C26_Witness ==
  /\ pure.v = "carousel"
  /\ pure.stage = "fetched"
  /\ pure.file.name = <<" ", "\"">>
  /\ pure.caption = <<"\\", "|">>
  /\ Get(pure.item.item, kGatewayURL) = pure.result.imageGatewayURL
  /\ Len(pure.result.imageGatewayURL) > Len(pure.result.imageURI)

\* the number of upload views that are visible
VisibleViews(w) ==
  (IF w.inputs THEN 1 ELSE 0) + (IF w.progress THEN 1 ELSE 0) + (IF w.success THEN 1 ELSE 0)

C28_SuccessIffPutResolved ==
  (variant = "carousel" /\ HasUploadUI(page)) =>
    /\ view.success <=> \E k \in 1..Len(clicks) : clicks[k].status = "resolved"
    /\ view.success =>
         \E k \in 1..Len(clicks) :
           /\ clicks[k].status = "resolved"
           /\ \E n \in 1..Len(backend) :
                /\ backend[n].cid = clicks[k].result.cid
                /\ backend[n].files = PutOf(k).files
           /\ view.galleryHref = GalleryHrefPrefix \o clicks[k].result.cid
           /\ view.gatewayHref = makeGatewayURL(clicks[k].result.cid, clicks[k].file.name)
    /\ (\A k \in 1..Len(clicks) :
          clicks[k].status \in {"rejected", "returned undefined", "no file", "pending"})
         => ~view.success

\* the put call of a click has resolved and the success view has replaced
\* the progress view
C28_Witness ==
  /\ variant = "carousel"
  /\ HasUploadUI(page)
  /\ view.success
  /\ ~view.progress
  /\ \E k \in 1..Len(clicks) : clicks[k].status = "resolved"

\* the members of the sidecar that the gateway returned
Sidecar == JSONParse(pure.body).val

ComputedKeys == {kCid, kGatewayURL, kUri}

\* C29 as stated: for every sidecar the gateway may return, the cid, the host
\* of gatewayURL and the prefix of uri of the item come from the CID of the
\* listing entry, and only path and caption are taken from the sidecar
\* (part_004:290-301 and part_003:1071-1099).
C29_LinksFromListingCID ==
  pure.stage = "answered" =>
    \A r \in {pure.item, pure.image} :
      ~r.thrown =>
        /\ Get(r.item, kCid) = pure.cid
        /\ StartsWith(Get(r.item, kGatewayURL), GatewayBase(pure.cid))
        /\ StartsWith(Get(r.item, kUri), IpfsBase(pure.cid))
        /\ DOMAIN r.item \subseteq ComputedKeys \cup {kPath, kCaption}

\* C29, amended: getImageMetadata of part_004 computes cid, gatewayURL and uri
\* from the CID of the listing entry, whatever the sidecar holds under these
\* keys, and copies every other member of the sidecar; the loop of
\* part_003:1071-1099 computes gatewayURL only and copies every other member,
\* a cid or uri of the sidecar included.
C29_LinksFromListingCIDByVariant ==
  pure.stage = "answered" =>
    /\ ~pure.item.thrown =>
         /\ Get(pure.item.item, kCid) = pure.cid
         /\ StartsWith(Get(pure.item.item, kGatewayURL), GatewayBase(pure.cid))
         /\ StartsWith(Get(pure.item.item, kUri), IpfsBase(pure.cid))
         /\ DOMAIN pure.item.item = DOMAIN Sidecar \cup ComputedKeys
         /\ \A k \in DOMAIN Sidecar \ ComputedKeys : pure.item.item[k] = Sidecar[k]
    /\ ~pure.image.thrown =>
         /\ StartsWith(Get(pure.image.item, kGatewayURL), GatewayBase(pure.cid))
         /\ DOMAIN pure.image.item = DOMAIN Sidecar \cup {kGatewayURL}
         /\ \A k \in DOMAIN Sidecar \ {kGatewayURL} : pure.image.item[k] = Sidecar[k]

\* the gateway returned a sidecar with its own cid, gatewayURL and uri: the
\* item of part_004 has the CID of the listing entry, the image of
\* part_003:1071-1099 the cid of the sidecar
C29_Witness ==
  /\ pure.stage = "answered"
  /\ Get(Sidecar, kCid) = <<"x">>
  /\ Get(Sidecar, kUri) = <<"u">>
  /\ ~pure.item.thrown
  /\ Get(pure.item.item, kCid) = pure.cid
  /\ ~pure.image.thrown
  /\ Get(pure.image.item, kCid) = <<"x">>

\* C30: in main.js, when the request of the listing through the CID stored in
\* local storage fails (non-OK response, no files, invalid JSON),
\* getGalleryListing removes the stored CID and goes on to search the uploads
\* for the listing; and it returns [] when no listing upload is found.
C30_FallbackWhenStoredCidFails ==
  /\ [][(variant = "listing" /\ listing.pc = "get" /\ listing'.pc \notin {"get", "done"}) =>
          (listingCID' = Null /\ listing'.pc = "find" /\ listing'.lists = listing.lists + 1)]_vars
  /\ []((variant = "listing" /\ listing.pc = "done" /\ listing.gets = <<>>) =>
          listing.imageList = <<>>)

====
